---- MODULE Spec2Model ----
(***************************************************************************)
(* A model of the Grist document client of lib/grist-api.ts (GristDocAPI): *)
(* fetchTable, addRecords, deleteRecords, updateRecords and syncTable,     *)
(* with the column-oriented codec (makeTableData), lodash's chunk, the     *)
(* API key and the dry run of _call, and the remote table the calls act    *)
(* on.  Spec is a client with a key and SpecSync its syncTable calls       *)
(* alone; SpecOptions is a client made with any options; SpecCodec the     *)
(* codec on its own; SpecOfTwo two clients that run syncTable at a time;   *)
(* SpecTyped syncTable on cells of several types.                          *)
(***************************************************************************)
EXTENDS Integers, Sequences, FiniteSets, TLC

(***************************************************************************)
(* Cell values (CellValue, and JavaScript's undefined for a missing key).  *)
(* A value is a record of its JavaScript type and an index of its content: *)
(* Num(1) is the number 1, Str(1) the string "1", Compound(1) the array    *)
(* ['d', 1].                                                               *)
(***************************************************************************)
Num(k) == [t |-> "number", v |-> k]
Str(k) == [t |-> "string", v |-> k]
Null == [t |-> "null", v |-> 0]
Compound(k) == [t |-> "object", v |-> k]
Undefined == [t |-> "undefined", v |-> 0]

\* typeof x: null is an "object" for JavaScript.
TypeOf(x) == IF x.t = "null" THEN "object" ELSE x.t

\* !x: undefined, null and 0 are falsy (the strings of the model are not empty).
Falsy(x) == x.t \in {"undefined", "null"} \/ x = Num(0)

\* a !== b. Two arrays are two objects, never the same one: the fetched
\* records are rebuilt from the response, so a compound value always differs.
StrictNeq(a, b) == IF a.t = "object" \/ b.t = "object" THEN TRUE ELSE a # b

\* array.includes(x): SameValueZero, by reference for compound values.
Includes(array, x) == \E y \in array : ~StrictNeq(y, x)

\* What JSON.stringify writes for an array element: undefined becomes null,
\* every other value keeps its type and content.
JsonValue(x) == IF x.t = "undefined" THEN Null ELSE x

(***************************************************************************)
(* Records (IRecord): a function from the column names it has to values.   *)
(***************************************************************************)
\* rec[colId]
Get(rec, colId) == IF colId \in DOMAIN rec THEN rec[colId] ELSE Undefined

\* Object.keys(rec), as a set.
ObjectKeys(rec) == DOMAIN rec

\* lodash pick(rec, keys)
Pick(rec, keys) == [c \in (keys \cap DOMAIN rec) |-> rec[c]]

\* obj[key] = value
SetKey(rec, key, value) ==
  [c \in (DOMAIN rec \cup {key}) |-> IF c = key THEN value ELSE rec[c]]

Min(a, b) == IF a < b THEN a ELSE b

\* A chunk that drops the last, shorter piece.
ChunkFull(array, size) ==
  [i \in 1..(Len(array) \div size) |-> SubSeq(array, (i - 1) * size + 1, i * size)]

\* lodash chunk(array, size): consecutive pieces of at most size elements.
Chunk(array, size) ==
  [i \in 1..((Len(array) + size - 1) \div size) |->
     SubSeq(array, (i - 1) * size + 1, Min(i * size, Len(array)))]

RECURSIVE Flatten(_)
Flatten(seqs) == IF seqs = <<>> THEN <<>> ELSE Head(seqs) \o Flatten(Tail(seqs))

\* A table data that has the columns of the first record only.
makeTableDataOfFirst(records) ==
  LET allKeys == IF records = <<>> THEN {} ELSE ObjectKeys(records[1])
  IN  [key \in allKeys |-> [i \in 1..Len(records) |-> Get(records[i], key)]]

\* makeTableData(records): one array per column that any record has, a
\* record without the column giving undefined.
makeTableData(records) ==
  LET allKeys == UNION {ObjectKeys(records[i]) : i \in 1..Len(records)}
  IN  [key \in allKeys |-> [i \in 1..Len(records) |-> Get(records[i], key)]]

\* The request body as JSON: undefined array elements are written as null.
JsonBody(data) ==
  [key \in DOMAIN data |-> [i \in 1..Len(data[key]) |-> JsonValue(data[key][i])]]

\* A filter that only looks at the columns the record has.
filterMatchesPresent(rec, filters) ==
  \A colId \in DOMAIN filters \cap DOMAIN rec : Includes(filters[colId], Get(rec, colId))

\* filterMatches(rec, filters)
filterMatches(rec, filters) ==
  \A colId \in DOMAIN filters : Includes(filters[colId], Get(rec, colId))

(***************************************************************************)
(* The remote table (the Grist document behind the REST API).  A row has   *)
(* the column id and the columns of the table.                             *)
(***************************************************************************)
TableCols == {"A", "B"}
RowCols == TableCols \cup {"id"}

\* The value the service stores in a column an added record does not give
\* (0 in a reference column, null in a date column).
DefaultValue(colId) == IF colId = "A" THEN Num(0) ELSE Null

Range(array) == {array[i] : i \in 1..Len(array)}

\* GET tables/T/data[?filter=...]: the rows whose value in every filter
\* column is one of the filter's values, as column-oriented data.
ServerRows(rows, filters) ==
  IF filters.given
  THEN SelectSeq(rows, LAMBDA row : \A c \in DOMAIN filters.spec : row[c] \in filters.spec[c])
  ELSE rows

ServerGet(rows, filters) ==
  LET view == ServerRows(rows, filters)
  IN  [c \in RowCols |-> [i \in 1..Len(view) |-> view[i][c]]]

\* The number of rows of column-oriented data.
NumRows(data) == IF DOMAIN data = {} THEN 0 ELSE Len(data[CHOOSE c \in DOMAIN data : TRUE])

\* POST tables/T/data: one new row per index, with a fresh id each (a given
\* id column is ignored); returns the new ids.
ServerAddIds(first, data) == [i \in 1..NumRows(data) |-> first + i - 1]

ServerAdd(rows, first, data) ==
  rows \o [i \in 1..NumRows(data) |->
            [c \in RowCols |->
               IF c = "id" THEN Num(first + i - 1)
               ELSE IF c \in DOMAIN data THEN data[c][i]
               ELSE DefaultValue(c)]]

\* PATCH tables/T/data: refused when an id is not a row of the table.
ServerUpdateOk(rows, data) ==
  /\ "id" \in DOMAIN data
  /\ \A i \in 1..NumRows(data) : \E r \in 1..Len(rows) : rows[r].id = data.id[i]

\* One row after the update: the given columns of the last entry for its id.
UpdatedRow(row, data) ==
  LET hits == {i \in 1..NumRows(data) : data.id[i] = row.id}
      last == CHOOSE i \in hits : \A j \in hits : j <= i
  IN  IF hits = {} THEN row
      ELSE [c \in RowCols |->
              IF c # "id" /\ c \in DOMAIN data THEN data[c][last] ELSE row[c]]

ServerUpdate(rows, data) == [r \in 1..Len(rows) |-> UpdatedRow(rows[r], data)]

\* POST apply [['BulkRemoveRecord', T, ids]]
ServerRemove(rows, ids) == SelectSeq(rows, LAMBDA row : row.id \notin Range(ids))

(***************************************************************************)
(* fetchTable's decoding of the response.                                  *)
(***************************************************************************)
\* A value that is not an array where an array is expected: a function whose
\* index is not one of a sequence.
NotArray(x) == [i \in {0} |-> x]

\* Array.isArray(col)
IsArray(col) == \A i \in DOMAIN col : i >= 1

\* Array.isArray(data.id): false too when data has no id.
IdIsArray(data) == "id" \in DOMAIN data /\ IsArray(data.id)

\* A decoding that leaves the id out of the records.
ToRecordsWithoutId(data) ==
  [index \in 1..Len(data.id) |-> [c \in DOMAIN data \ {"id"} |-> data[c][index]]]

\* A decoding that misses the last row.
ToRecordsButLast(data) ==
  [index \in 1..(Len(data.id) - 1) |-> [c \in DOMAIN data |-> data[c][index]]]

\* data.id.map((id, index) => mapValues(data, (col) => col[index]))
ToRecords(data) == [index \in 1..Len(data.id) |-> [c \in DOMAIN data |-> data[c][index]]]

(***************************************************************************)
(* The order of the keys.  Object.keys gives the keys of an object in the  *)
(* order in which they were set; a record with its keys in order is the    *)
(* sequence of its entries, each a key and a value.                        *)
(***************************************************************************)
Entry(key, value) == [key |-> key, value |-> value]

\* Object.keys(rec), in order.
KeysOf(entries) == [i \in 1..Len(entries) |-> entries[i].key]

\* The record of the entries, the order of its keys left out.
AsRecord(entries) ==
  [key \in Range(KeysOf(entries)) |->
     entries[CHOOSE i \in 1..Len(entries) : entries[i].key = key].value]

AsRecords(list) == [i \in 1..Len(list) |-> AsRecord(list[i])]

\* for (const key of Object.keys(rec)) { allKeys[key] = null; }: a key that
\* allKeys has keeps its place, a new key comes last.
RECURSIVE SetKeys(_, _)
SetKeys(allKeys, keys) ==
  IF keys = <<>> THEN allKeys
  ELSE SetKeys(IF Head(keys) \in Range(allKeys) THEN allKeys ELSE Append(allKeys, Head(keys)),
               Tail(keys))

\* Object.keys(makeTableData(records)): mapValues keeps the order of allKeys.
RECURSIVE makeTableDataKeys(_)
makeTableDataKeys(list) ==
  IF list = <<>> THEN <<>>
  ELSE SetKeys(makeTableDataKeys(SubSeq(list, 1, Len(list) - 1)), KeysOf(list[Len(list)]))

(***************************************************************************)
(* updateRecords: the check of the ids, the groups and the calls.          *)
(***************************************************************************)
\* !rec.id || typeof rec.id !== 'number'
InvalidId(rec) == Falsy(Get(rec, "id")) \/ TypeOf(Get(rec, "id")) # "number"

\* A check of the first record only.
UpdateRejectedFirst(records) == records # <<>> /\ InvalidId(records[1])

UpdateRejected(records) == \E i \in 1..Len(records) : InvalidId(records[i])

\* A grouping that puts every record in one group.
GroupKeyNone(rec) == {}

\* The key of a record's group: JSON.stringify(Object.keys(rec).sort()).
GroupKey(rec) == ObjectKeys(rec)

\* Groups in the reverse of the order in which their column sets first occur.
GroupsInReverse(records) ==
  LET firsts == SelectSeq([i \in 1..Len(records) |-> i],
                  LAMBDA i : \A j \in 1..(i - 1) : GroupKey(records[j]) # GroupKey(records[i]))
  IN  [g \in 1..Len(firsts) |->
         SelectSeq(records, LAMBDA rec :
           GroupKey(rec) = GroupKey(records[firsts[Len(firsts) + 1 - g]]))]

\* The groups (groups.values()): one per column set, in the order in which
\* each column set first occurs, every group in input order.
Groups(records) ==
  LET firsts == SelectSeq([i \in 1..Len(records) |-> i],
                  LAMBDA i : \A j \in 1..(i - 1) : GroupKey(records[j]) # GroupKey(records[i]))
  IN  [g \in 1..Len(firsts) |->
         SelectSeq(records, LAMBDA rec : GroupKey(rec) = GroupKey(records[firsts[g]]))]

\* chunk(records, chunkSize).map(makeTableData)
ChunkData(records, size) ==
  LET pieces == Chunk(records, size)
  IN  [i \in 1..Len(pieces) |-> makeTableData(pieces[i])]

Request(method, url, data) == [method |-> method, url |-> url, data |-> data]

\* An updateRecords that sends every record in a call of its own, in input
\* order.
UpdateCallsOneByOne(records, size) ==
  [i \in 1..Len(records) |-> Request("PATCH", "data", makeTableData(<<records[i]>>))]

UpdateCalls(records, size) ==
  LET groups == Groups(records)
      callData == Flatten([g \in 1..Len(groups) |-> ChunkData(groups[g], size)])
  IN  [i \in 1..Len(callData) |-> Request("PATCH", "data", callData[i])]

\* addRecords: nothing for an empty list, else one POST per chunk.
AddCalls(records, size) ==
  IF Len(records) = 0 THEN <<>>
  ELSE LET callData == ChunkData(records, size)
       IN  [i \in 1..Len(callData) |-> Request("POST", "data", callData[i])]

\* deleteRecords: one POST apply per chunk of ids.
DeleteCalls(recordIds, size) ==
  LET pieces == Chunk(recordIds, size)
  IN  [i \in 1..Len(pieces) |-> Request("POST", "apply", [rowIds |-> pieces[i]])]

(***************************************************************************)
(* syncTable: the check of the filters, the lookup and the staging.        *)
(***************************************************************************)
NoFilters == [given |-> FALSE, spec |-> <<>>]
Filters(spec) == [given |-> TRUE, spec |-> spec]

\* A syncTable that does not check its filters.
SyncNeverRejected(keyColIds, filters) == FALSE

\* filters && !Object.keys(filters).every((colId) => keyColIds.includes(colId))
SyncRejected(keyColIds, filters) ==
  filters.given /\ ~(\A colId \in DOMAIN filters.spec : colId \in Range(keyColIds))

\* JSON.stringify(keyColIds.map((colId) => rec[colId]))
KeyOf(rec, keyColIds) == [i \in 1..Len(keyColIds) |-> JsonValue(Get(rec, keyColIds[i]))]

\* A lookup that misses the last fetched row.
HasRowButLast(rows, keyColIds, key) ==
  \E i \in 1..(Len(rows) - 1) : KeyOf(rows[i], keyColIds) = key

\* gristRows.get(key): the last fetched row with that key, if any.
HasRow(rows, keyColIds, key) == \E i \in 1..Len(rows) : KeyOf(rows[i], keyColIds) = key

\* A lookup that keeps the first fetched row with the key, not the last.
RowOfFirst(rows, keyColIds, key) ==
  rows[CHOOSE i \in 1..Len(rows) :
         /\ KeyOf(rows[i], keyColIds) = key
         /\ \A j \in 1..(i - 1) : KeyOf(rows[j], keyColIds) # key]

RowOf(rows, keyColIds, key) ==
  rows[CHOOSE i \in 1..Len(rows) :
         /\ KeyOf(rows[i], keyColIds) = key
         /\ \A j \in (i + 1)..Len(rows) : KeyOf(rows[j], keyColIds) # key]

\* A diff that takes the whole record once a column has changed.
ChangedKeysWhole(newRec, oldRec) ==
  IF \E colId \in ObjectKeys(newRec) : StrictNeq(newRec[colId], Get(oldRec, colId))
  THEN ObjectKeys(newRec)
  ELSE {}

\* A diff that also counts the columns that the row has and the record lacks.
ChangedKeysOfBoth(newRec, oldRec) ==
  {colId \in ObjectKeys(newRec) \cup (ObjectKeys(oldRec) \ {"id"}) :
     StrictNeq(Get(newRec, colId), Get(oldRec, colId))}

\* Object.keys(newRec).filter((colId) => newRec[colId] !== oldRec[colId])
ChangedKeys(newRec, oldRec) ==
  {colId \in ObjectKeys(newRec) : StrictNeq(newRec[colId], Get(oldRec, colId))}

\* An update that keeps the id that the record has, if it has one.
UpdateOfSuppliedId(newRec, oldRec) ==
  IF "id" \in DOMAIN newRec
  THEN Pick(newRec, ChangedKeys(newRec, oldRec) \cup {"id"})
  ELSE SetKey(Pick(newRec, ChangedKeys(newRec, oldRec)), "id", Get(oldRec, "id"))

\* An update that carries every column of the record.
UpdateOfRecord(newRec, oldRec) == SetKey(newRec, "id", Get(oldRec, "id"))

\* update = pick(newRec, changedKeys); update.id = oldRec.id
UpdateOf(newRec, oldRec) == SetKey(Pick(newRec, ChangedKeys(newRec, oldRec)), "id", Get(oldRec, "id"))

\* The records the loop does not skip: all of them without filters.
Passing(records, filters) ==
  SelectSeq(records, LAMBDA newRec : ~(filters.given /\ ~filterMatches(newRec, filters.spec)))

StagedUpdates(records, keyColIds, filters, rows) ==
  LET changed == SelectSeq(Passing(records, filters), LAMBDA newRec :
                   /\ HasRow(rows, keyColIds, KeyOf(newRec, keyColIds))
                   /\ ChangedKeys(newRec, RowOf(rows, keyColIds, KeyOf(newRec, keyColIds))) # {})
  IN  [i \in 1..Len(changed) |->
         UpdateOf(changed[i], RowOf(rows, keyColIds, KeyOf(changed[i], keyColIds)))]

\* Inserts that carry the key columns of the record only.
StagedInsertsOfKeys(records, keyColIds, filters, rows) ==
  LET new == SelectSeq(Passing(records, filters), LAMBDA newRec :
               ~HasRow(rows, keyColIds, KeyOf(newRec, keyColIds)))
  IN  [i \in 1..Len(new) |-> Pick(new[i], Range(keyColIds))]

\* Inserts for the first record only of those that have one key.
StagedInsertsOnce(records, keyColIds, filters, rows) ==
  LET new == SelectSeq(Passing(records, filters), LAMBDA newRec :
               ~HasRow(rows, keyColIds, KeyOf(newRec, keyColIds)))
      first == SelectSeq([i \in 1..Len(new) |-> i], LAMBDA i :
                 \A j \in 1..(i - 1) : KeyOf(new[j], keyColIds) # KeyOf(new[i], keyColIds))
  IN  [n \in 1..Len(first) |-> new[first[n]]]

\* Inserts for every record that passes the filter, matched by a row or not.
StagedInsertsOfAll(records, keyColIds, filters, rows) == Passing(records, filters)

StagedInserts(records, keyColIds, filters, rows) ==
  SelectSeq(Passing(records, filters), LAMBDA newRec :
    ~HasRow(rows, keyColIds, KeyOf(newRec, keyColIds)))

\* A syncTable that adds before it updates.
SyncCallsInsertFirst(updates, inserts, size) ==
  AddCalls(inserts, size) \o UpdateCalls(updates, size)

\* A syncTable that replaces a changed row (a delete and an insert).
SyncCallsReplacing(updates, inserts, size) ==
  DeleteCalls([i \in 1..Len(updates) |-> updates[i].id], size)
    \o AddCalls(updates \o inserts, size)

\* A syncTable that stages its inserts and does not send them.
SyncCallsUpdatesOnly(updates, inserts, size) == UpdateCalls(updates, size)

\* await this.updateRecords(tableName, updateList);
\* await this.addRecords(tableName, addList);
SyncCalls(updates, inserts, size) == UpdateCalls(updates, size) \o AddCalls(inserts, size)

(***************************************************************************)
(* The API key: options.apiKey, this._apiKey and getAPIKey().  A key is a  *)
(* string; "" is the empty key.                                            *)
(***************************************************************************)
Omitted == "undefined"        \* options.apiKey is not given
NullKey == "null"             \* this._apiKey === null: not given and not looked up yet
KeyNotFound == "not found"    \* getAPIKey() throws: no GRIST_API_KEY, no ~/.grist-api-key

\* this._apiKey = options.apiKey ?? null
ConstructedKey(option) == IF option = Omitted THEN NullKey ELSE option

\* A lookup of the key whenever there is none to send.
ResolvesWhenFalsy(key) == key \in {NullKey, ""}

\* this._apiKey === null: _call calls getAPIKey().
Resolves(key) == key = NullKey

\* A lookup that leaves the key null when getAPIKey() throws, so that the next
\* request looks it up again.
ResolvedKeyRetried(key, found) ==
  IF ~Resolves(key) THEN key
  ELSE IF found = KeyNotFound THEN NullKey
  ELSE found

\* this._apiKey after the lookup: the key found, or '' when getAPIKey() throws.
ResolvedKey(key, found) ==
  IF ~Resolves(key) THEN key
  ELSE IF found = KeyNotFound THEN ""
  ELSE found

\* apiKeyMessage is set in the call in which getAPIKey() throws.
ApiKeyMessage(key, found) == Resolves(key) /\ found = KeyNotFound

\* authHeader: Authorization is sent when this._apiKey is not empty.
AuthHeader(key) == key # ""

\* A hint for every failure, whatever its status.
ErrorHintAnyStatus(status, apiKeyMessage) == apiKeyMessage

\* err.response?.status === 403 && apiKeyMessage: the message of the error
\* ends with the message of getAPIKey().
ErrorHint(status, apiKeyMessage) == status = 403 /\ apiKeyMessage

(***************************************************************************)
(* The calls a caller makes: the bounded sets their arguments come from.   *)
(***************************************************************************)
MaxRows == 1        \* rows of the table before the first call
MaxSync == 2        \* records given to syncTable
MaxLen == 3         \* records or ids given to addRecords, updateRecords, deleteRecords
MaxChunk == 2       \* the client's chunkSize option is in 1..MaxChunk

SeqsUpTo(S, n) == UNION {[1..k -> S] : k \in 0..n}

InitialTables ==
  LET cells == {[A |-> Num(1), B |-> Num(1)], [A |-> Num(1), B |-> Num(2)],
                [A |-> Num(2), B |-> Num(1)]}
  IN  {[i \in 1..Len(t) |-> [id |-> Num(i), A |-> t[i].A, B |-> t[i].B]] :
         t \in SeqsUpTo(cells, MaxRows)}

SyncRecords ==
  { [A |-> Num(1), B |-> Num(1)], [A |-> Num(1), B |-> Num(2)],
    [A |-> Num(2), B |-> Num(1)], [A |-> Num(1)], [B |-> Num(1)],
    [A |-> Num(2), B |-> Compound(1)], [id |-> Num(9), A |-> Num(1), B |-> Num(1)] }

KeyColChoices == {<<"A">>, <<"A", "B">>}

FilterChoices ==
  {NoFilters, Filters([A |-> {Num(1)}]), Filters([B |-> {Num(1)}])}

AddRecordChoices == {[A |-> Num(1), B |-> Num(1)], [A |-> Num(2)], [B |-> Num(2)]}

UpdateRecordChoices ==
  { [id |-> Num(1), B |-> Num(2)], [id |-> Num(1), A |-> Num(2), B |-> Num(1)],
    [id |-> Num(2), B |-> Num(1)], [B |-> Num(2)], [id |-> Num(0), B |-> Num(2)],
    [id |-> Str(1), B |-> Num(2)] }

RecordIdChoices == {Num(1), Num(2)}

(***************************************************************************)
(* The state: the remote table, the client's options, and the one call in  *)
(* progress (async functions run one await at a time).                     *)
(***************************************************************************)
VARIABLES
  table,      \* the rows of the remote table, in row order
  nextId,     \* the id the service gives to the next added row
  dryrun,     \* this._dryrun
  chunkSize,  \* this._chunkSize
  optionApiKey, \* options.apiKey as the constructor got it
  environment,  \* what getAPIKey() finds: a key, or KeyNotFound
  apiKey,     \* this._apiKey
  inflight,   \* the requests sent and not answered yet, in order
  codec,      \* records on their way through makeTableData and fetchTable's decoding
  pc,         \* "idle", "fetch" (the GET is in flight), "send" (the next request of
              \* callData is to send), "wait" (it is in flight), "done"
  op,         \* the method called and its arguments
  queue,      \* the requests still to send, in order
  log,        \* the requests of this call that have ended, in order, with how each ended
  results,    \* addRecords' results so far
  outcome,    \* "none", "ok" (returned), "rejected" (threw before a call), "failed" (a call threw)
  fetched,    \* the records fetchTable returned to this call
  updateList, \* syncTable's updateList
  addList,    \* syncTable's addList
  before,     \* the table when this call began
  again,      \* "no" for a first call; for a second syncTable, "same" (the same
              \* arguments) or "less" (the records without the first one)
  prior,      \* what the first call staged and the table it left
  peer        \* a syncTable run of a second client, made while the first client's is under way

vars == <<table, nextId, dryrun, chunkSize, optionApiKey, environment, apiKey, inflight,
          codec, pc, op, queue, log, results, outcome, fetched, updateList, addList, before,
          again, prior, peer>>

NoOp == [name |-> "none", records |-> <<>>, keyColIds |-> <<>>, filters |-> NoFilters,
         recordIds |-> <<>>]

NoPrior == [updateList |-> <<>>, addList |-> <<>>, table |-> <<>>]

NoCodec == [step |-> "none"]

\* The second client has made no call.
NoPeer == [pc |-> "idle", call |-> <<>>, queue |-> <<>>, log |-> <<>>, outcome |-> "none",
           fetched |-> <<>>, updateList |-> <<>>, addList |-> <<>>]

\* No call has been made yet.
NoCall ==
  /\ nextId = Len(table) + 1
  /\ inflight = <<>>
  /\ pc = "idle"
  /\ op = NoOp
  /\ queue = <<>>
  /\ log = <<>>
  /\ results = <<>>
  /\ outcome = "none"
  /\ fetched = <<>>
  /\ updateList = <<>>
  /\ addList = <<>>
  /\ before = table
  /\ again = "no"
  /\ prior = NoPrior
  /\ peer = NoPeer

\* new GristDocAPI(docUrl, {apiKey, dryrun, chunkSize})
Constructed(options) ==
  /\ dryrun = options.dryrun
  /\ chunkSize = options.chunkSize
  /\ optionApiKey = options.apiKey
  /\ apiKey = ConstructedKey(options.apiKey)

\* A client with a key, not in a dry run, and a table of up to MaxRows rows.
Init ==
  /\ table \in InitialTables
  /\ \E size \in 1..MaxChunk :
        Constructed([apiKey |-> "key", dryrun |-> FALSE, chunkSize |-> size])
  /\ environment = KeyNotFound
  /\ codec = NoCodec
  /\ NoCall

\* _call sends the request: the key is resolved if it is null, and the
\* request goes out with or without an Authorization header.
Issue(request) ==
  /\ inflight' = Append(inflight,
       [method |-> request.method, url |-> request.url, data |-> request.data,
        resolves |-> Resolves(apiKey), auth |-> AuthHeader(ResolvedKey(apiKey, environment)),
        apiKeyMessage |-> ApiKeyMessage(apiKey, environment)])
  /\ apiKey' = ResolvedKey(apiKey, environment)

\* A request as the log keeps it: sent or (dry run) not, answered (status 200)
\* or failed, with the status and the hint in the message of the error.
Sent(call, status, response) ==
  [method |-> call.method, url |-> call.url, data |-> call.data,
   sent |-> TRUE, ok |-> (status = 200), response |-> response,
   resolves |-> call.resolves, auth |-> call.auth, status |-> status,
   hint |-> (status # 200 /\ ErrorHint(status, call.apiKeyMessage))]
NotSent(request) ==
  [method |-> request.method, url |-> request.url, data |-> request.data,
   sent |-> FALSE, ok |-> FALSE, response |-> <<>>,
   resolves |-> FALSE, auth |-> FALSE, status |-> 0, hint |-> FALSE]

\* A call begins: nothing sent, nothing staged.
Begin(call) ==
  /\ op' = call
  /\ log' = <<>>
  /\ results' = <<>>
  /\ fetched' = <<>>
  /\ updateList' = <<>>
  /\ addList' = <<>>
  /\ before' = table

\* The call goes on with the requests of callData, or returns if there are none.
Proceed(callData) ==
  /\ queue' = callData
  /\ pc' = IF callData = <<>> THEN "done" ELSE "send"
  /\ outcome' = IF callData = <<>> THEN "ok" ELSE "none"

\* The call throws before sending anything more.
Reject ==
  /\ queue' = <<>>
  /\ pc' = "done"
  /\ outcome' = "rejected"

\* An error that the loop over callData catches: it goes on with the rest.
ThrowSwallowed ==
  /\ queue' = queue
  /\ pc' = IF queue = <<>> THEN "done" ELSE "send"
  /\ outcome' = IF queue = <<>> THEN "failed" ELSE "none"

\* A request has failed: _call throws, the call in progress throws, and the
\* requests it had still to send are not sent.
Throw ==
  /\ queue' = <<>>
  /\ pc' = "done"
  /\ outcome' = "failed"

\* syncTable(tableName, records, keyColIds, {filters}): the filters are checked
\* first; the fetch is the next step.
SyncTable(records, keyColIds, filters) ==
  /\ Begin([name |-> "syncTable", records |-> records, keyColIds |-> keyColIds,
            filters |-> filters, recordIds |-> <<>>])
  /\ IF SyncRejected(keyColIds, filters)
     THEN Reject /\ UNCHANGED <<inflight, apiKey>>
     ELSE /\ Issue(Request("GET", "data", <<>>))
          /\ queue' = <<>>
          /\ pc' = "fetch"
          /\ outcome' = "none"
  /\ UNCHANGED <<table, nextId, dryrun, chunkSize, optionApiKey, environment, codec, peer>>

StartSync ==
  /\ pc = "idle"
  /\ \E records \in SeqsUpTo(SyncRecords, MaxSync), keyColIds \in KeyColChoices,
        filters \in FilterChoices :
        SyncTable(records, keyColIds, filters)
  /\ UNCHANGED <<again, prior>>

\* The first syncTable has returned and the caller calls it once more.
Second(how, records) ==
  /\ pc = "done"
  /\ op.name = "syncTable"
  /\ outcome = "ok"
  /\ again = "no"
  /\ again' = how
  /\ prior' = [updateList |-> updateList, addList |-> addList, table |-> table]
  /\ SyncTable(records, op.keyColIds, op.filters)

\* The same syncTable call twice in sequence.
SyncAgain == Second("same", op.records)

\* A later syncTable call whose records lack the first of the earlier ones.
SyncLess == op.records # <<>> /\ Second("less", Tail(op.records))

\* fetchTable(tableName, filters)
StartFetch ==
  /\ pc = "idle"
  /\ \E filters \in FilterChoices :
        Begin([name |-> "fetchTable", records |-> <<>>, keyColIds |-> <<>>,
               filters |-> filters, recordIds |-> <<>>])
  /\ Issue(Request("GET", "data", <<>>))
  /\ queue' = <<>>
  /\ pc' = "fetch"
  /\ outcome' = "none"
  /\ UNCHANGED <<table, nextId, dryrun, chunkSize, optionApiKey, environment, codec, peer, again, prior>>

\* The GET of fetchTable answers. fetchTable returns the records; syncTable
\* goes on: it stages the updates and the inserts, updateRecords checks the
\* ids and the calls of updateRecords, then of addRecords, are next.
FetchReturns ==
  /\ pc = "fetch"
  /\ LET data == ServerGet(table, op.filters)
         recs == ToRecords(data)
         ups == StagedUpdates(op.records, op.keyColIds, op.filters, recs)
         adds == StagedInserts(op.records, op.keyColIds, op.filters, recs)
     IN  /\ log' = Append(log, Sent(Head(inflight), 200, <<>>))
         /\ inflight' = Tail(inflight)
         /\ IF ~IdIsArray(data)
            THEN Reject /\ UNCHANGED <<fetched, updateList, addList>>
            ELSE /\ fetched' = recs
                 /\ IF op.name = "fetchTable"
                    THEN Proceed(<<>>) /\ UNCHANGED <<updateList, addList>>
                    ELSE /\ updateList' = ups
                         /\ addList' = adds
                         /\ IF UpdateRejected(ups)
                            THEN Reject
                            ELSE Proceed(SyncCalls(ups, adds, chunkSize))
  /\ UNCHANGED <<table, nextId, dryrun, chunkSize, optionApiKey, environment, codec, peer, apiKey, op,
                 results, before, again, prior>>

\* addRecords(tableName, records)
StartAdd ==
  /\ pc = "idle"
  /\ \E records \in SeqsUpTo(AddRecordChoices, MaxLen) :
        /\ Begin([name |-> "addRecords", records |-> records, keyColIds |-> <<>>,
                  filters |-> NoFilters, recordIds |-> <<>>])
        /\ Proceed(AddCalls(records, chunkSize))
  /\ UNCHANGED <<table, nextId, dryrun, chunkSize, optionApiKey, environment, codec, peer, apiKey,
                 inflight, again, prior>>

\* updateRecords(tableName, records)
StartUpdate ==
  /\ pc = "idle"
  /\ \E records \in SeqsUpTo(UpdateRecordChoices, MaxLen) :
        /\ Begin([name |-> "updateRecords", records |-> records, keyColIds |-> <<>>,
                  filters |-> NoFilters, recordIds |-> <<>>])
        /\ IF UpdateRejected(records)
           THEN Reject
           ELSE Proceed(UpdateCalls(records, chunkSize))
  /\ UNCHANGED <<table, nextId, dryrun, chunkSize, optionApiKey, environment, codec, peer, apiKey,
                 inflight, again, prior>>

\* deleteRecords(tableName, recordIds)
StartDelete ==
  /\ pc = "idle"
  /\ \E recordIds \in SeqsUpTo(RecordIdChoices, MaxLen) :
        /\ Begin([name |-> "deleteRecords", records |-> <<>>, keyColIds |-> <<>>,
                  filters |-> NoFilters, recordIds |-> recordIds])
        /\ Proceed(DeleteCalls(recordIds, chunkSize))
  /\ UNCHANGED <<table, nextId, dryrun, chunkSize, optionApiKey, environment, codec, peer, apiKey,
                 inflight, again, prior>>

\* A dry run that holds back the POST requests only.
SuppressedPost(request) == dryrun /\ request.method = "POST"

\* _call's dry run: a request that is not a GET is logged and not sent.
Suppressed(request) == dryrun /\ request.method # "GET"

\* Whether the service takes the request.
ServerAccepts(rows, request) ==
  request.method = "PATCH" => ServerUpdateOk(rows, JsonBody(request.data))

\* The table after the service has run the request.
ServerApply(rows, first, request) ==
  IF request.method = "PATCH" THEN ServerUpdate(rows, JsonBody(request.data))
  ELSE IF request.url = "apply" THEN ServerRemove(rows, request.data.rowIds)
  ELSE ServerAdd(rows, first, JsonBody(request.data))

\* The response body: the new ids for an insert.
ServerResponse(first, request) ==
  IF request.method = "POST" /\ request.url = "data"
  THEN ServerAddIds(first, JsonBody(request.data))
  ELSE <<>>

\* A result that keeps the last response only.
PushResultsLast(array, resp) == resp

\* results.push(...(resp || []))
PushResults(array, resp) == array \o resp

\* The loop over callData goes on with the requests left, or the call returns.
Advance(rest) ==
  /\ pc' = IF rest = <<>> THEN "done" ELSE "send"
  /\ outcome' = IF rest = <<>> THEN "ok" ELSE "none"

\* A loop that sends its requests without waiting for the answers.
NoAwait == pc' = IF Tail(queue) = <<>> THEN "wait" ELSE "send"

\* await this._docCall(...): the call is suspended until the request ends.
Await == pc' = "wait"

\* The next request of callData: in a dry run _call logs it and returns, and
\* the loop goes on; else _call sends it and the call waits for the answer.
SendNext ==
  /\ pc = "send"
  /\ LET request == Head(queue)
     IN  /\ queue' = Tail(queue)
         /\ IF Suppressed(request)
            THEN /\ log' = Append(log, NotSent(request))
                 /\ Advance(Tail(queue))
                 /\ UNCHANGED <<inflight, apiKey>>
            ELSE /\ Issue(request)
                 /\ Await
                 /\ UNCHANGED <<log, outcome>>
  /\ UNCHANGED <<table, nextId, dryrun, chunkSize, optionApiKey, environment, codec, peer, op, results,
                 fetched, updateList, addList, before, again, prior>>

\* The service answers the request in flight: it has run it, and the loop
\* goes on; or it refuses it (status 400), and _call throws.
Answer ==
  /\ pc = "wait"
  /\ LET call == Head(inflight)
         request == Request(call.method, call.url, call.data)
     IN  /\ inflight' = Tail(inflight)
         /\ IF ServerAccepts(table, request)
            THEN /\ log' = Append(log, Sent(call, 200, ServerResponse(nextId, request)))
                 /\ table' = ServerApply(table, nextId, request)
                 /\ nextId' = nextId + Len(ServerResponse(nextId, request))
                 /\ results' = PushResults(results, ServerResponse(nextId, request))
                 /\ Advance(queue)
                 /\ UNCHANGED queue
            ELSE /\ log' = Append(log, Sent(call, 400, <<>>))
                 /\ Throw
                 /\ UNCHANGED <<table, nextId, results>>
  /\ UNCHANGED <<dryrun, chunkSize, optionApiKey, environment, codec, peer, apiKey, op, fetched,
                 updateList, addList, before, again, prior>>

\* The statuses of a request that fails for another reason than its content:
\* no access (403), or an error of the service (500).
FailureStatuses == {403, 500}

\* The request in flight fails: axios throws, _call adds what it knows to the
\* message of the error and throws, and the call ends without sending the rest.
CallFails ==
  /\ pc \in {"fetch", "wait"}
  /\ \E status \in FailureStatuses :
        log' = Append(log, Sent(Head(inflight), status, <<>>))
  /\ inflight' = Tail(inflight)
  /\ Throw
  /\ UNCHANGED <<table, nextId, dryrun, chunkSize, optionApiKey, environment, codec, peer, apiKey, op,
                 results, fetched, updateList, addList, before, again, prior>>

Next ==
  \/ StartSync
  \/ SyncAgain
  \/ SyncLess
  \/ StartFetch
  \/ FetchReturns
  \/ StartAdd
  \/ StartUpdate
  \/ StartDelete
  \/ SendNext
  \/ Answer
  \/ CallFails

Spec == Init /\ [][Next]_vars

(***************************************************************************)
(* The syncTable calls alone: a first call, and a second one after it.     *)
(***************************************************************************)
NextSync ==
  \/ StartSync
  \/ SyncAgain
  \/ SyncLess
  \/ FetchReturns
  \/ SendNext
  \/ Answer
  \/ CallFails

SpecSync == Init /\ [][NextSync]_vars

(***************************************************************************)
(* The same calls on a client made with any options: in a dry run or not,  *)
(* with a key, with the empty key, or with none and whatever getAPIKey()   *)
(* then finds.  A call in a dry run leaves the table as it was and the     *)
(* client with no key or with the key it has looked up, which is the       *)
(* state of a client made with that key: what holds of one call from       *)
(* every initial state holds of a sequence of calls.                       *)
(***************************************************************************)
ApiKeyOptions == {Omitted, "", "key"}
Environments == {KeyNotFound, "", "envkey"}

InitOptions ==
  /\ table = <<[id |-> Num(1), A |-> Num(1), B |-> Num(1)]>>
  /\ \E size \in 1..MaxChunk, key \in ApiKeyOptions, dry \in BOOLEAN :
        Constructed([apiKey |-> key, dryrun |-> dry, chunkSize |-> size])
  /\ environment \in Environments
  /\ codec = NoCodec
  /\ NoCall

SpecOptions == InitOptions /\ [][Next]_vars

(***************************************************************************)
(* The codec on its own: a list of records is encoded by makeTableData,    *)
(* the table data comes back as the response of a GET (as it is, as the    *)
(* JSON of it, or without an id array), and fetchTable decodes it.         *)
(***************************************************************************)
OrderedRecordChoices ==
  { <<Entry("id", Num(1)), Entry("A", Num(1))>>,
    <<Entry("A", Num(2)), Entry("id", Num(2))>>,
    <<Entry("id", Num(2)), Entry("B", Num(1))>>,
    <<Entry("B", Num(2)), Entry("A", Num(1))>>,
    <<Entry("id", Num(3)), Entry("B", Compound(1)), Entry("A", Null)>> }

\* How the table data comes back.
Vias == {"memory", "json", "no id", "id not an array"}

\* The response that fetchTable gets.
Response(data, via) ==
  IF via = "memory" THEN data
  ELSE IF via = "json" THEN JsonBody(data)
  ELSE IF via = "no id" THEN [c \in DOMAIN data \ {"id"} |-> JsonBody(data)[c]]
  ELSE [c \in DOMAIN data \cup {"id"} |->
          IF c = "id" THEN NotArray(Num(1)) ELSE JsonBody(data)[c]]

InitCodec ==
  /\ table = <<>>
  /\ Constructed([apiKey |-> "key", dryrun |-> FALSE, chunkSize |-> 1])
  /\ environment = KeyNotFound
  /\ codec \in {[step |-> "records", list |-> list] :
                  list \in SeqsUpTo(OrderedRecordChoices, MaxLen)}
  /\ NoCall

\* The table, the client and its calls: no call is made meanwhile.
callVars == <<table, nextId, dryrun, chunkSize, optionApiKey, environment, apiKey, inflight,
              pc, op, queue, log, results, outcome, fetched, updateList, addList, before,
              again, prior, peer>>

\* makeTableData(records)
Encode ==
  /\ codec.step = "records"
  /\ codec' = [step |-> "data", list |-> codec.list,
                data |-> makeTableData(AsRecords(codec.list)),
                keys |-> makeTableDataKeys(codec.list)]
  /\ UNCHANGED callVars

\* The table data is the response of a GET.
Receive ==
  /\ codec.step = "data"
  /\ \E via \in Vias :
        codec' = [step |-> "response", list |-> codec.list, data |-> codec.data,
                  keys |-> codec.keys, via |-> via, response |-> Response(codec.data, via)]
  /\ UNCHANGED callVars

\* fetchTable's check of the response and its decoding.
Decode ==
  /\ codec.step = "response"
  /\ codec' = [step |-> IF IdIsArray(codec.response) THEN "decoded" ELSE "failed",
                list |-> codec.list, data |-> codec.data, keys |-> codec.keys,
                via |-> codec.via, response |-> codec.response,
                records |-> IF IdIsArray(codec.response)
                            THEN ToRecords(codec.response) ELSE <<>>]
  /\ UNCHANGED callVars

NextCodec ==
  \/ Encode
  \/ Receive
  \/ Decode

SpecCodec == InitCodec /\ [][NextCodec]_vars

(***************************************************************************)
(* Two syncTable runs at a time: while the run of the first client is      *)
(* under way, a second client with the same options calls syncTable with   *)
(* the same arguments.  A client awaits each of its requests, but the      *)
(* service answers the requests of the two in any order.                   *)
(***************************************************************************)
MaxShared == 1      \* records given to the syncTable that both clients run

StartSyncOfTwo ==
  /\ pc = "idle"
  /\ \E records \in SeqsUpTo(SyncRecords, MaxShared), keyColIds \in KeyColChoices,
        filters \in FilterChoices :
        SyncTable(records, keyColIds, filters)
  /\ UNCHANGED <<again, prior>>

clientVars == <<dryrun, chunkSize, optionApiKey, environment, apiKey, inflight, codec, pc, op,
                queue, log, results, outcome, fetched, updateList, addList, before, again,
                prior>>

\* The second client calls syncTable: its filters pass the check as the
\* first client's did, and its GET is in flight.
PeerSync ==
  /\ op.name = "syncTable"
  /\ ~SyncRejected(op.keyColIds, op.filters)
  /\ peer.pc = "idle"
  /\ peer' = [peer EXCEPT !.pc = "fetch", !.call = Request("GET", "data", <<>>)]
  /\ UNCHANGED <<table, nextId>>
  /\ UNCHANGED clientVars

\* The GET of the second client answers: it stages its updates and inserts
\* from the rows that the table has now.
PeerFetchReturns ==
  /\ peer.pc = "fetch"
  /\ LET data == ServerGet(table, op.filters)
         recs == ToRecords(data)
         ups == StagedUpdates(op.records, op.keyColIds, op.filters, recs)
         adds == StagedInserts(op.records, op.keyColIds, op.filters, recs)
         callData == SyncCalls(ups, adds, chunkSize)
     IN  peer' =
           IF ~IdIsArray(data) \/ UpdateRejected(ups)
           THEN [peer EXCEPT !.pc = "done", !.outcome = "rejected",
                             !.log = Append(@, peer.call)]
           ELSE [peer EXCEPT !.pc = IF callData = <<>> THEN "done" ELSE "send",
                             !.outcome = IF callData = <<>> THEN "ok" ELSE "none",
                             !.log = Append(@, peer.call),
                             !.queue = callData,
                             !.fetched = recs,
                             !.updateList = ups,
                             !.addList = adds]
  /\ UNCHANGED <<table, nextId>>
  /\ UNCHANGED clientVars

\* The second client sends the next request of its callData and waits.
PeerSendNext ==
  /\ peer.pc = "send"
  /\ peer' = [peer EXCEPT !.pc = "wait", !.call = Head(peer.queue),
                          !.queue = Tail(peer.queue)]
  /\ UNCHANGED <<table, nextId>>
  /\ UNCHANGED clientVars

\* The service answers the request of the second client: it has run it, or
\* it refuses it and the second client's call throws.
PeerAnswer ==
  /\ peer.pc = "wait"
  /\ IF ServerAccepts(table, peer.call)
     THEN /\ table' = ServerApply(table, nextId, peer.call)
          /\ nextId' = nextId + Len(ServerResponse(nextId, peer.call))
          /\ peer' = [peer EXCEPT !.pc = IF peer.queue = <<>> THEN "done" ELSE "send",
                                  !.outcome = IF peer.queue = <<>> THEN "ok" ELSE "none",
                                  !.log = Append(@, peer.call)]
     ELSE /\ peer' = [peer EXCEPT !.pc = "done", !.outcome = "failed", !.queue = <<>>]
          /\ UNCHANGED <<table, nextId>>
  /\ UNCHANGED clientVars

NextOfTwo ==
  \/ StartSyncOfTwo
  \/ FetchReturns
  \/ SendNext
  \/ Answer
  \/ PeerSync
  \/ PeerFetchReturns
  \/ PeerSendNext
  \/ PeerAnswer

SpecOfTwo == Init /\ [][NextOfTwo]_vars

(***************************************************************************)
(* syncTable on cells of several types: the number 1, the string "1" and   *)
(* null in the rows, and records that have them or lack the column.        *)
(***************************************************************************)
MaxTyped == 1       \* records given to syncTable

TypedTables ==
  {<<>>} \cup {<<[id |-> Num(1), A |-> a, B |-> b]>> :
                 a \in {Num(1), Str(1), Null}, b \in {Num(1), Null}}

TypedRecords ==
  { [A |-> Num(1), B |-> Num(1)], [A |-> Str(1), B |-> Num(1)], [A |-> Null, B |-> Num(1)],
    [A |-> Num(1), B |-> Null], [A |-> Num(1)], [B |-> Num(1)] }

InitTyped ==
  /\ table \in TypedTables
  /\ \E size \in 1..MaxChunk :
        Constructed([apiKey |-> "key", dryrun |-> FALSE, chunkSize |-> size])
  /\ environment = KeyNotFound
  /\ codec = NoCodec
  /\ NoCall

StartSyncTyped ==
  /\ pc = "idle"
  /\ \E records \in SeqsUpTo(TypedRecords, MaxTyped), keyColIds \in KeyColChoices,
        filters \in FilterChoices :
        SyncTable(records, keyColIds, filters)
  /\ UNCHANGED <<again, prior>>

NextTyped ==
  \/ StartSyncTyped
  \/ FetchReturns
  \/ SendNext
  \/ Answer

SpecTyped == InitTyped /\ [][NextTyped]_vars

(***************************************************************************)
(* Properties.                                                             *)
(***************************************************************************)
\* syncTable's fetch has answered: the updates and inserts are staged.
SyncStaged ==
  /\ op.name = "syncTable"
  /\ pc \in {"send", "wait", "done"}
  /\ log # <<>>
  /\ log[1].ok

\* The record's value for a filter column is not one of the filter's values
\* (a record without the column has none of them).
FailsFilter(rec, filters) ==
  /\ filters.given
  /\ \E c \in DOMAIN filters.spec : c \notin DOMAIN rec \/ rec[c] \notin filters.spec[c]

\* The requests of the log whose method is not GET.
Mutating(calls) == SelectSeq(calls, LAMBDA call : call.method # "GET")

\* The input records that pass the filter have pairwise distinct key tuples,
\* and each has every key column, no id column and scalar values only.
WellKeyed(records, keyColIds, filters) ==
  LET kept == SelectSeq(records, LAMBDA rec : ~FailsFilter(rec, filters))
  IN  /\ \A i \in 1..Len(kept) :
           /\ Range(keyColIds) \subseteq DOMAIN kept[i]
           /\ "id" \notin DOMAIN kept[i]
           /\ \A c \in DOMAIN kept[i] : kept[i][c].t # "object"
      /\ \A i, j \in 1..Len(kept) :
           i < j => \E k \in 1..Len(keyColIds) : kept[i][keyColIds[k]] # kept[j][keyColIds[k]]

\* The second of two syncTable calls with the same arguments sends nothing
\* but its fetch and leaves the table as the first call left it.
SecondRunIdle ==
  /\ updateList = <<>>
  /\ addList = <<>>
  /\ Mutating(log) = <<>>
  /\ queue = <<>>
  /\ inflight = <<>>
  /\ table = prior.table

\* C1 as claimed: for any table, records and keyColIds, the second of two
\* syncTable runs with the same arguments stages no update and no insert,
\* sends no PATCH and no POST, and leaves the table as the first run left it.
C1_IdempotentForAnyInput == (again = "same" /\ SyncStaged) => SecondRunIdle

\* C1 as amended: the same, when the records that pass the filter have
\* pairwise distinct key tuples and each has every key column, no id column
\* and only scalar values (the client not in a dry run, the first run's calls
\* all answered, the service storing the values as given).
C1_IdempotentWhenWellKeyed ==
  (again = "same" /\ SyncStaged /\ ~dryrun /\ WellKeyed(op.records, op.keyColIds, op.filters))
    => SecondRunIdle

\* C1: a second run, after a first run that staged an update and an insert.
C1_Witness ==
  /\ again = "same"
  /\ SyncStaged
  /\ pc = "done"
  /\ WellKeyed(op.records, op.keyColIds, op.filters)
  /\ prior.updateList # <<>>
  /\ prior.addList # <<>>

\* C2: a syncTable call whose filters have a column that keyColIds lacks has
\* thrown, has sent no request at all and has left the table as it was.
C2_FiltersOutsideKeysRejected ==
  (/\ op.name = "syncTable"
   /\ op.filters.given
   /\ \E c \in DOMAIN op.filters.spec : \A k \in 1..Len(op.keyColIds) : op.keyColIds[k] # c)
    => /\ pc = "done"
       /\ outcome = "rejected"
       /\ log = <<>>
       /\ inflight = <<>>
       /\ queue = <<>>
       /\ table = before

\* C2: such a call, with records and a table it would otherwise have changed.
C2_Witness ==
  /\ op.name = "syncTable"
  /\ op.filters = Filters([B |-> {Num(1)}])
  /\ op.keyColIds = <<"A">>
  /\ op.records = <<[A |-> Num(1), B |-> Num(1)], [A |-> Num(2), B |-> Num(1)]>>
  /\ table = <<[id |-> Num(1), A |-> Num(1), B |-> Num(2)]>>
  /\ outcome = "rejected"

\* The ids of the rows of a table.
RowIds(rows) == {rows[i].id : i \in 1..Len(rows)}

\* C3: syncTable never sends (nor plans) a BulkRemoveRecord, and the table
\* keeps every row id it had before the call and before the earlier call.
C3_SyncNeverRemoves ==
  op.name = "syncTable" =>
    /\ \A i \in 1..Len(log) : log[i].url # "apply"
    /\ \A i \in 1..Len(inflight) : inflight[i].url # "apply"
    /\ \A i \in 1..Len(queue) : queue[i].url # "apply"
    /\ RowIds(before) \subseteq RowIds(table)
    /\ again # "no" => RowIds(prior.table) \subseteq RowIds(table)

\* C3: a later sync has changed the table, and its records lack the record
\* whose row the earlier sync added.
C3_Witness ==
  /\ op.name = "syncTable"
  /\ again = "less"
  /\ pc = "done"
  /\ outcome = "ok"
  /\ Mutating(log) # <<>>
  /\ prior.addList # <<>>
  /\ \A i \in 1..Len(op.records) : op.records[i] # prior.addList[1]
  /\ Len(table) > Len(prior.table)

\* The input records that pass the filter and whose key tuple a fetched row has.
MatchedRecords ==
  SelectSeq(op.records, LAMBDA rec :
    /\ ~FailsFilter(rec, op.filters)
    /\ HasRow(fetched, op.keyColIds, KeyOf(rec, op.keyColIds)))

MatchedRow(rec) == RowOf(fetched, op.keyColIds, KeyOf(rec, op.keyColIds))

\* The columns of the record whose value is another than the row's.
DifferentCols(rec, row) == {c \in DOMAIN rec : rec[c] # Get(row, c)}

\* The same, a compound value counting as another than any value.
UnequalCols(rec, row) ==
  {c \in DOMAIN rec : rec[c].t = "object" \/ Get(row, c).t = "object" \/ rec[c] # Get(row, c)}

\* The record's values in the columns cols, with the row's id.
UpdateWith(rec, row, cols) ==
  [c \in cols \cup {"id"} |-> IF c = "id" THEN row.id ELSE rec[c]]

\* C4 as claimed: the staged updates are, in input order, one for every
\* matched record that has a column whose value is different from the row's,
\* holding exactly those columns and the row's id.
C4_UpdatesAreTheDifferentColumns ==
  SyncStaged =>
    LET changed == SelectSeq(MatchedRecords, LAMBDA rec :
                     DifferentCols(rec, MatchedRow(rec)) # {})
    IN  updateList = [i \in 1..Len(changed) |->
          UpdateWith(changed[i], MatchedRow(changed[i]),
                     DifferentCols(changed[i], MatchedRow(changed[i])))]

\* C4 as amended: the same with "different" read as !==, under which a
\* compound value is different from every value, an equal one included.
C4_UpdatesAreTheUnequalColumns ==
  SyncStaged =>
    LET changed == SelectSeq(MatchedRecords, LAMBDA rec :
                     UnequalCols(rec, MatchedRow(rec)) # {})
    IN  updateList = [i \in 1..Len(changed) |->
          UpdateWith(changed[i], MatchedRow(changed[i]),
                     UnequalCols(changed[i], MatchedRow(changed[i])))]

\* C4: the example of the claim, with A for Name and B for Qty.
C4_Witness ==
  /\ SyncStaged
  /\ op.records = <<[A |-> Num(1), B |-> Num(2)]>>
  /\ op.keyColIds = <<"A">>
  /\ fetched = <<[id |-> Num(1), A |-> Num(1), B |-> Num(1)]>>
  /\ updateList = <<[id |-> Num(1), B |-> Num(2)]>>
  /\ addList = <<>>

\* C5: with filters, the staged updates and inserts are those of the records
\* that do not fail the filter, as if the failing ones had not been given: no
\* failing record is staged, and when all fail the call changes nothing.
C5_FilteredOutNotStaged ==
  (SyncStaged /\ op.filters.given) =>
    LET kept == SelectSeq(op.records, LAMBDA rec : ~FailsFilter(rec, op.filters))
    IN  /\ updateList = StagedUpdates(kept, op.keyColIds, NoFilters, fetched)
        /\ addList = StagedInserts(kept, op.keyColIds, NoFilters, fetched)
        /\ \A i \in 1..Len(addList) : ~FailsFilter(addList[i], op.filters)
        /\ Len(updateList) + Len(addList) <= Len(kept)
        /\ kept = <<>> =>
             (table = before /\ queue = <<>> /\ inflight = <<>> /\ Mutating(log) = <<>>)

\* C5: a sync has returned whose records all fail the filter, one for its
\* value and one for lacking the column; neither has a row in the fetched view.
C5_Witness ==
  /\ SyncStaged
  /\ op.filters = Filters([A |-> {Num(1)}])
  /\ op.records = <<[B |-> Num(1)], [A |-> Num(2), B |-> Num(1)]>>
  /\ table # <<>>
  /\ fetched = <<>>
  /\ pc = "done"
  /\ outcome = "ok"
  /\ table = before

\* The requests of the call in progress: those that have ended, those in
\* flight and those still to send.
Calls ==
  [i \in 1..Len(log) |-> Request(log[i].method, log[i].url, log[i].data)]
    \o [i \in 1..Len(inflight) |->
          Request(inflight[i].method, inflight[i].url, inflight[i].data)]
    \o queue

\* C6: in a syncTable run that the check of the filters lets through, the
\* first request is the GET and there is no other; a request is sent only
\* when the one before it has been answered; no PATCH follows a POST, sent
\* or still to send.
C6_FetchThenUpdatesThenInserts ==
  op.name = "syncTable" =>
    /\ outcome # "rejected" => Calls # <<>>
    /\ \A i \in 1..Len(Calls) : (Calls[i].method = "GET") <=> (i = 1)
    /\ \A i \in 1..(Len(log) - 1) : log[i].sent => log[i].ok
    /\ inflight # <<>> => \A i \in 1..Len(log) : log[i].ok
    /\ pc = "fetch" => (log = <<>> /\ queue = <<>>)
    /\ \A i, j \in 1..Len(Calls) :
         (i < j /\ Calls[i].method = "POST") => Calls[j].method # "PATCH"

\* C6: a run has returned after its fetch, an update and an insert, sent in
\* that order and each answered.
C6_Witness ==
  /\ op.name = "syncTable"
  /\ pc = "done"
  /\ outcome = "ok"
  /\ Len(log) = 3
  /\ log[1].method = "GET"
  /\ log[2].method = "PATCH"
  /\ log[3].method = "POST"
  /\ \A i \in 1..3 : log[i].sent /\ log[i].ok

CeilDiv(n, size) == (n + size - 1) \div size

\* The sum, over the column sets, of the calls that the records with that
\* column set need.
RECURSIVE CallsOfGroups(_, _, _)
CallsOfGroups(colSets, records, size) ==
  IF colSets = {} THEN 0
  ELSE LET K == CHOOSE K \in colSets : TRUE
       IN  CeilDiv(Cardinality({i \in 1..Len(records) : DOMAIN records[i] = K}), size)
             + CallsOfGroups(colSets \ {K}, records, size)

\* An updateRecords call (or syncTable's) that has got past the check of the
\* ids and in which no request has failed.
Updating ==
  \/ op.name = "updateRecords" /\ pc \in {"send", "wait", "done"} /\ outcome \in {"none", "ok"}
  \/ SyncStaged /\ outcome \in {"none", "ok"}

\* C7: no PATCH carries an undefined value (the records of one call have the
\* same columns, none is filled in), and updateRecords makes, for every
\* column set, the calls that its records need at chunkSize a call.
C7_UpdateCallsByColumnSet ==
  Updating =>
    /\ \A k \in 1..Len(Calls) :
         Calls[k].method = "PATCH" =>
           \A c \in DOMAIN Calls[k].data : \A i \in 1..Len(Calls[k].data[c]) :
             Calls[k].data[c][i] # Undefined
    /\ LET records == IF op.name = "updateRecords" THEN op.records ELSE updateList
       IN  Len(SelectSeq(Calls, LAMBDA call : call.method = "PATCH"))
             = CallsOfGroups({DOMAIN records[i] : i \in 1..Len(records)}, records, chunkSize)

\* C7: an updateRecords of three records, the first and the last with one
\* column set and the second with another, has returned after two calls.
C7_Witness ==
  /\ op.name = "updateRecords"
  /\ pc = "done"
  /\ outcome = "ok"
  /\ Len(op.records) = 3
  /\ DOMAIN op.records[1] = DOMAIN op.records[3]
  /\ DOMAIN op.records[1] # DOMAIN op.records[2]
  /\ chunkSize = 2
  /\ Len(log) = 2

\* The rows of column-oriented data (of a list of ids, for a delete).
RowsOf(data) == [i \in 1..NumRows(data) |-> [c \in DOMAIN data |-> data[c][i]]]

\* The row is the input item: the record, with undefined in the columns it
\* lacks, or the id.
RowIsItem(row, item) ==
  IF op.name = "deleteRecords" THEN row.rowIds = item
  ELSE DOMAIN item \subseteq DOMAIN row /\ \A c \in DOMAIN row : row[c] = Get(item, c)

\* addRecords, deleteRecords, or updateRecords of records with one column
\* set, past the check of the ids and with no request failed.
Chunking ==
  /\ pc \in {"send", "wait", "done"}
  /\ outcome \in {"none", "ok"}
  /\ \/ op.name \in {"addRecords", "deleteRecords"}
     \/ /\ op.name = "updateRecords"
        /\ \A i, j \in 1..Len(op.records) : DOMAIN op.records[i] = DOMAIN op.records[j]

\* C8: n items at chunk size c make ceil(n / c) calls of at most c rows each,
\* whose rows, one call after the other, are the input in input order.
C8_ChunksCoverInputInOrder ==
  Chunking =>
    LET items == IF op.name = "deleteRecords" THEN op.recordIds ELSE op.records
        rows == Flatten([k \in 1..Len(Calls) |-> RowsOf(Calls[k].data)])
    IN  /\ Len(Calls) = CeilDiv(Len(items), chunkSize)
        /\ \A k \in 1..Len(Calls) : NumRows(Calls[k].data) \in 1..chunkSize
        /\ Len(rows) = Len(items)
        /\ \A i \in 1..Len(rows) : RowIsItem(rows[i], items[i])

\* C8: three records at chunk size 2 were added in two calls, of 2 and 1 rows.
C8_Witness ==
  /\ op.name = "addRecords"
  /\ pc = "done"
  /\ outcome = "ok"
  /\ Len(op.records) = 3
  /\ chunkSize = 2
  /\ Len(log) = 2
  /\ NumRows(log[1].data) = 2
  /\ NumRows(log[2].data) = 1

\* C9: addRecords' result is the ids that the inserts returned, call after
\* call; once it has returned, the i-th id is the row of the i-th record;
\* for an empty list it has returned an empty list and sent nothing.
C9_AddRecordsReturnsIdsInOrder ==
  op.name = "addRecords" =>
    /\ results = Flatten([k \in 1..Len(log) |-> log[k].response])
    /\ (pc = "done" /\ outcome = "ok") =>
         /\ Len(results) = Len(op.records)
         /\ \A i \in 1..Len(results) : \E r \in 1..Len(table) :
              /\ table[r].id = Num(results[i])
              /\ \A c \in DOMAIN op.records[i] \ {"id"} : table[r][c] = op.records[i][c]
    /\ op.records = <<>> => (pc = "done" /\ outcome = "ok" /\ results = <<>> /\ log = <<>>)

\* C9: three records were added in two calls, to a table that had a row.
C9_Witness ==
  /\ op.name = "addRecords"
  /\ pc = "done"
  /\ outcome = "ok"
  /\ Len(log) = 2
  /\ before # <<>>
  /\ results = <<2, 3, 4>>

\* C10: an updateRecords call with a record that has no id, or an id that is
\* not a number, has thrown, has sent no request and has left the table.
C10_UpdateWithoutNumericIdSendsNothing ==
  (/\ op.name = "updateRecords"
   /\ \E i \in 1..Len(op.records) :
        "id" \notin DOMAIN op.records[i] \/ op.records[i].id.t # "number")
    => /\ pc = "done"
       /\ outcome = "rejected"
       /\ log = <<>>
       /\ inflight = <<>>
       /\ queue = <<>>
       /\ table = before

\* C10: the record without an id comes after a record that could be sent.
C10_Witness ==
  /\ op.name = "updateRecords"
  /\ op.records = <<[id |-> Num(1), B |-> Num(2)], [B |-> Num(2)]>>
  /\ table = <<[id |-> Num(1), A |-> Num(1), B |-> Num(1)]>>
  /\ outcome = "rejected"

\* C11: on a client in a dry run, every request sent or in flight is a GET,
\* the table is as it was when the call began and no row id has been given
\* out; and the GET of fetchTable, and of a syncTable that the check of the
\* filters lets through, is sent all the same.
C11_DryRunSendsOnlyReads ==
  dryrun =>
    /\ \A i \in 1..Len(log) : log[i].sent => log[i].method = "GET"
    /\ \A i \in 1..Len(inflight) : inflight[i].method = "GET"
    /\ table = before
    /\ nextId = Len(table) + 1
    /\ results = <<>>
    /\ (op.name \in {"fetchTable", "syncTable"} /\ outcome # "rejected") =>
         /\ Calls # <<>>
         /\ Calls[1].method = "GET"
         /\ pc = "fetch" => inflight # <<>>
         /\ pc # "fetch" => log[1].sent

\* C11: a syncTable in a dry run has returned: its GET was sent and answered,
\* its PATCH and its POST were not sent.
C11_Witness ==
  /\ dryrun
  /\ op.name = "syncTable"
  /\ pc = "done"
  /\ outcome = "ok"
  /\ Len(log) = 3
  /\ log[1].method = "GET" /\ log[1].sent /\ log[1].ok
  /\ log[2].method = "PATCH" /\ ~log[2].sent
  /\ log[3].method = "POST" /\ ~log[3].sent
  /\ updateList # <<>>
  /\ addList # <<>>

\* The table after the service has run the requests of the entries, in order.
RECURSIVE Applied(_, _)
Applied(rows, entries) ==
  IF entries = <<>> THEN rows
  ELSE LET entry == Head(entries)
           first == IF entry.response = <<>> THEN 0 ELSE entry.response[1]
       IN  Applied(ServerApply(rows, first, Request(entry.method, entry.url, entry.data)),
                   Tail(entries))

\* The requests the call in progress makes when none fails.
Planned ==
  IF op.name = "addRecords" THEN AddCalls(op.records, chunkSize)
  ELSE IF op.name = "updateRecords" THEN UpdateCalls(op.records, chunkSize)
  ELSE IF op.name = "deleteRecords" THEN DeleteCalls(op.recordIds, chunkSize)
  ELSE <<Request("GET", "data", <<>>)>>
         \o (IF op.name = "syncTable" /\ log[1].ok
             THEN SyncCalls(updateList, addList, chunkSize)
             ELSE <<>>)

\* C12: when a request of a call has failed, the call has thrown; the failed
\* request is the last one sent, every one before it was answered, nothing
\* is in flight or still to send; the requests sent are the first ones the
\* call makes, each once; and the table is the one the call began with,
\* changed by the requests before the failed one.
C12_FailureStopsTheCall ==
  /\ (\E i \in 1..Len(log) : log[i].sent /\ ~log[i].ok) <=> outcome = "failed"
  /\ outcome = "failed" =>
       /\ pc = "done"
       /\ queue = <<>>
       /\ inflight = <<>>
       /\ \A i \in 1..Len(log) : log[i].sent /\ (log[i].ok <=> i < Len(log))
       /\ Len(log) <= Len(Planned)
       /\ \A i \in 1..Len(log) :
            Request(log[i].method, log[i].url, log[i].data) = Planned[i]
       /\ table = Applied(before, [i \in 1..(Len(log) - 1) |-> log[i]])

\* C12: the second of the three inserts of an addRecords call has failed; the
\* row of the first is in the table, the third was not sent.
C12_Witness ==
  /\ op.name = "addRecords"
  /\ Len(op.records) = 3
  /\ chunkSize = 1
  /\ outcome = "failed"
  /\ Len(log) = 2
  /\ log[1].ok
  /\ ~log[2].ok
  /\ Len(table) = Len(before) + 1

\* C14: on a client made with apiKey '', getAPIKey() is never called, no
\* request has an Authorization header, and no error has the hint of the
\* key that was not found; a call fails only by a request that was sent.
C14_EmptyKeyIsNeverLookedUp ==
  optionApiKey = "" =>
    /\ apiKey = ""
    /\ \A i \in 1..Len(inflight) :
         ~inflight[i].resolves /\ ~inflight[i].auth /\ ~inflight[i].apiKeyMessage
    /\ \A i \in 1..Len(log) : ~log[i].resolves /\ ~log[i].auth /\ ~log[i].hint
    /\ outcome = "failed" => (log # <<>> /\ log[Len(log)].sent)

\* C14: on such a client, where getAPIKey() would have found a key, a
\* fetchTable was sent without the header and was refused (403), and a
\* syncTable has sent its three requests without it.
C14_Witness ==
  /\ optionApiKey = ""
  /\ environment = "envkey"
  /\ ~dryrun
  /\ \/ /\ op.name = "fetchTable"
        /\ outcome = "failed"
        /\ log[1].status = 403
        /\ ~log[1].hint
     \/ /\ op.name = "syncTable"
        /\ outcome = "ok"
        /\ Len(log) = 3

\* C15 as claimed: on a client made without apiKey, for which getAPIKey()
\* finds no key, every request that fails with status 403 has the hint in
\* the message of its error, the first request of the client or a later one.
C15_HintOnEveryAuthorizationFailure ==
  (optionApiKey = Omitted /\ environment = KeyNotFound) =>
    \A i \in 1..Len(log) : (log[i].sent /\ log[i].status = 403) => log[i].hint

\* The records have been encoded, the table data has come back as it was
\* made (or as the JSON of it) and fetchTable has decoded it or has failed.
RoundTripDone ==
  /\ codec.step \in {"decoded", "failed"}
  /\ codec.via \in {"memory", "json"}
  /\ codec.list # <<>>

\* The round trip has given the records back.
RoundTripGivesRecords ==
  /\ codec.step = "decoded"
  /\ codec.records = AsRecords(codec.list)

\* C13 as claimed: for any non-empty list of records, with one column set
\* or not, decoding the table data of the records gives the records back.
C13_RoundTripOfAnyRecords == RoundTripDone => RoundTripGivesRecords

\* C13 as amended: the same for the lists whose records all have the same
\* column set, id among the columns.
C13_RoundTripOfOneColumnSet ==
  (/\ RoundTripDone
   /\ \A i \in 1..Len(codec.list) :
        /\ "id" \in Range(KeysOf(codec.list[i]))
        /\ Range(KeysOf(codec.list[i])) = Range(KeysOf(codec.list[1])))
    => RoundTripGivesRecords

\* C13: two records with the columns id and A, in another order of keys,
\* have come back through the JSON of their table data.
C13_Witness ==
  /\ RoundTripDone
  /\ codec.via = "json"
  /\ Len(codec.list) = 2
  /\ KeysOf(codec.list[1]) = <<"id", "A">>
  /\ KeysOf(codec.list[2]) = <<"A", "id">>
  /\ codec.records = <<[id |-> Num(1), A |-> Num(1)], [id |-> Num(2), A |-> Num(2)]>>

\* C16: fetchTable fails when the response has no id or an id that is not
\* an array; else it returns one record per element of id, in order, the
\* i-th with every column of the response and its i-th value.
C16_DecodesOneRecordPerId ==
  codec.step \in {"decoded", "failed"} =>
    LET data == codec.response
        bad == "id" \notin DOMAIN data \/ codec.via = "id not an array"
    IN  /\ codec.step = "failed" <=> bad
        /\ codec.step = "decoded" =>
             /\ Len(codec.records) = Len(data.id)
             /\ \A i \in 1..Len(codec.records) :
                  /\ DOMAIN codec.records[i] = DOMAIN data
                  /\ \A c \in DOMAIN data : codec.records[i][c] = data[c][i]

\* C16: a response of three rows and the columns id, A and B was decoded;
\* one without id and one whose id is not an array made fetchTable fail.
C16_Witness ==
  \/ /\ codec.step = "decoded"
     /\ Len(codec.records) = 3
     /\ DOMAIN codec.response = {"id", "A", "B"}
     /\ codec.records[3] = [id |-> Num(3), A |-> Null, B |-> Compound(1)]
  \/ /\ codec.step = "failed"
     /\ codec.via = "id not an array"
     /\ Len(codec.list) = 3

\* The place where the key is first seen: the first record that has it, and
\* its place among the keys of that record.
FirstRecordWith(list, key) ==
  CHOOSE i \in 1..Len(list) :
    /\ key \in Range(KeysOf(list[i]))
    /\ \A j \in 1..(i - 1) : key \notin Range(KeysOf(list[j]))

PlaceIn(entries, key) == CHOOSE j \in 1..Len(entries) : entries[j].key = key

SeenBefore(list, key, other) ==
  LET i == FirstRecordWith(list, key)
      j == FirstRecordWith(list, other)
  IN  i < j \/ (i = j /\ PlaceIn(list[i], key) < PlaceIn(list[i], other))

\* C17: the columns of the table data are the keys of the records, each
\* once, in the order in which they are first seen; in the request body
\* every column has one value per record, in order: the record's value, or
\* null when the record has not the column; no records give no columns.
C17_TableDataOfTheRecords ==
  codec.step = "data" =>
    LET list == codec.list
        body == JsonBody(codec.data)
    IN  /\ DOMAIN codec.data = UNION {Range(KeysOf(list[i])) : i \in 1..Len(list)}
        /\ Range(codec.keys) = DOMAIN codec.data
        /\ \A a, b \in 1..Len(codec.keys) :
             a < b => /\ codec.keys[a] # codec.keys[b]
                      /\ SeenBefore(list, codec.keys[a], codec.keys[b])
        /\ \A key \in DOMAIN body :
             /\ Len(body[key]) = Len(list)
             /\ \A i \in 1..Len(list) :
                  body[key][i] = IF key \in Range(KeysOf(list[i]))
                                 THEN list[i][PlaceIn(list[i], key)].value
                                 ELSE Null
        /\ list = <<>> => (DOMAIN codec.data = {} /\ codec.keys = <<>>)

\* C17: of the records {B, A}, {id, A} and {id, B}, the columns are B, A, id
\* and the column id begins with a null.
C17_Witness ==
  /\ codec.step = "data"
  /\ Len(codec.list) = 3
  /\ KeysOf(codec.list[1]) = <<"B", "A">>
  /\ KeysOf(codec.list[2]) = <<"id", "A">>
  /\ codec.keys = <<"B", "A", "id">>
  /\ JsonBody(codec.data).id = <<Null, Num(1), Num(2)>>

\* The record and the row have the same key tuple: in every key column the
\* same value, a missing one counting as null.
SameKey(rec, row, keyColIds) ==
  \A k \in 1..Len(keyColIds) :
    LET a == Get(rec, keyColIds[k])
        b == Get(row, keyColIds[k])
    IN  (IF a = Undefined THEN Null ELSE a) = (IF b = Undefined THEN Null ELSE b)

\* C18: the staged inserts are, in input order, the records that do not fail
\* the filter and whose key tuple no fetched row has, each as it was given;
\* and, in a run without a failure, the rows of the POST requests are these
\* records, in order.
C18_UnmatchedRecordsAreInserted ==
  SyncStaged =>
    LET new == SelectSeq(op.records, LAMBDA rec :
                 /\ ~FailsFilter(rec, op.filters)
                 /\ \A r \in 1..Len(fetched) : ~SameKey(rec, fetched[r], op.keyColIds))
        posts == SelectSeq(Calls, LAMBDA call : call.method = "POST")
        rows == Flatten([k \in 1..Len(posts) |-> RowsOf(posts[k].data)])
    IN  /\ addList = new
        /\ outcome \in {"none", "ok"} =>
             /\ Len(rows) = Len(new)
             /\ \A i \in 1..Len(rows) :
                  /\ DOMAIN new[i] \subseteq DOMAIN rows[i]
                  /\ \A c \in DOMAIN rows[i] : rows[i][c] = Get(new[i], c)

\* C18: a record given twice, with the key columns of the fetched row and
\* another value in B, was staged twice with the key A and B, and the table
\* has got two rows.
C18_Witness ==
  /\ SyncStaged
  /\ op.keyColIds = <<"A", "B">>
  /\ op.filters = Filters([A |-> {Num(1)}])
  /\ op.records = <<[A |-> Num(1), B |-> Num(2)], [A |-> Num(1), B |-> Num(2)]>>
  /\ fetched = <<[id |-> Num(1), A |-> Num(1), B |-> Num(1)]>>
  /\ addList = op.records
  /\ pc = "done"
  /\ outcome = "ok"
  /\ Len(table) = 3

\* The place of the first record with that column set.
FirstWith(records, colSet) ==
  CHOOSE i \in 1..Len(records) :
    /\ DOMAIN records[i] = colSet
    /\ \A j \in 1..(i - 1) : DOMAIN records[j] # colSet

\* C19: of two PATCH requests of updateRecords with other columns, the
\* earlier one has the column set that comes first in the records (so the
\* requests of one column set follow each other); and the rows of the
\* requests of one column set are the records with it, in input order.
C19_GroupsInOrderOfFirstRecord ==
  Updating =>
    LET records == IF op.name = "updateRecords" THEN op.records ELSE updateList
        calls == SelectSeq(Calls, LAMBDA call : call.method = "PATCH")
    IN  /\ \A a, b \in 1..Len(calls) :
             (a < b /\ DOMAIN calls[a].data # DOMAIN calls[b].data) =>
               FirstWith(records, DOMAIN calls[a].data) < FirstWith(records, DOMAIN calls[b].data)
        /\ \A i \in 1..Len(records) :
             LET colSet == DOMAIN records[i]
                 ofSet == SelectSeq(calls, LAMBDA call : DOMAIN call.data = colSet)
             IN  Flatten([k \in 1..Len(ofSet) |-> RowsOf(ofSet[k].data)])
                   = SelectSeq(records, LAMBDA rec : DOMAIN rec = colSet)

\* C19: of three records, the second with other columns than the first and
\* the third, sent one a request, the third was sent before the second.
C19_Witness ==
  /\ op.name = "updateRecords"
  /\ chunkSize = 1
  /\ op.records = <<[id |-> Num(1), B |-> Num(2)], [id |-> Num(1), A |-> Num(2), B |-> Num(1)],
                    [id |-> Num(1), B |-> Num(2)]>>
  /\ pc = "done"
  /\ outcome = "ok"
  /\ Len(log) = 3
  /\ DOMAIN log[2].data = {"id", "B"}
  /\ DOMAIN log[3].data = {"id", "A", "B"}

\* C20: at most one request is in flight; while one is, the call waits and
\* every request it has made before was answered; a request that failed
\* is the last one the call has made.
C20_OneRequestAtATime ==
  /\ Len(inflight) <= 1
  /\ inflight # <<>> <=> pc \in {"fetch", "wait"}
  /\ inflight # <<>> => \A i \in 1..Len(log) : log[i].sent /\ log[i].ok
  /\ \A i \in 1..(Len(log) - 1) : log[i].sent /\ log[i].ok

\* C20: the second insert of an addRecords call is in flight, the first was
\* answered, the third is still to send.
C20_Witness ==
  /\ op.name = "addRecords"
  /\ pc = "wait"
  /\ Len(inflight) = 1
  /\ Len(log) = 1
  /\ log[1].ok
  /\ Len(queue) = 1

\* C21: on a client made without apiKey the key is null (not looked up) at
\* first; a step that sends a request calls getAPIKey() if and only if the
\* key is still null, and leaves the key set: to the key found, or to ''
\* when none is found; no other step changes the key, and once it is set no
\* step changes it or sets it back to null.
C21_KeyLookedUpOnceOnFirstRequest ==
  /\ optionApiKey = Omitted => apiKey = NullKey
  /\ [][optionApiKey = Omitted =>
          /\ apiKey # NullKey => apiKey' = apiKey
          /\ IF Len(inflight') > Len(inflight)
             THEN /\ inflight'[Len(inflight')].resolves <=> apiKey = NullKey
                  /\ apiKey' # NullKey
                  /\ apiKey = NullKey =>
                       apiKey' = IF environment = KeyNotFound THEN "" ELSE environment
             ELSE apiKey' = apiKey]_vars

\* C21: on such a client in a dry run, a second syncTable has ended after its
\* GET, a PATCH and a POST; the GET was sent without a lookup and with the
\* key that the first call found, the PATCH and the POST were not sent.
C21_Witness ==
  /\ optionApiKey = Omitted
  /\ environment = "envkey"
  /\ dryrun
  /\ again = "same"
  /\ pc = "done"
  /\ Len(log) = 3
  /\ log[1].sent /\ ~log[1].resolves /\ log[1].auth
  /\ ~log[3].sent
  /\ apiKey = "envkey"

\* The ids that the PATCH requests of the call carry.
PatchedIds ==
  UNION {Range(Calls[k].data.id) : k \in {n \in 1..Len(Calls) : Calls[n].method = "PATCH"}}

\* The place of the last fetched row, in fetch order, with the key tuple of
\* the record.
LastWithKey(rec) ==
  CHOOSE r \in 1..Len(fetched) :
    /\ SameKey(rec, fetched[r], op.keyColIds)
    /\ \A s \in (r + 1)..Len(fetched) : ~SameKey(rec, fetched[s], op.keyColIds)

\* The fetched row has the key tuple of a row fetched after it.
Shadowed(r) ==
  \E s \in (r + 1)..Len(fetched) : SameKey(fetched[r], fetched[s], op.keyColIds)

\* C22: a record whose key tuple several fetched rows have is compared with
\* the last of them, and its update has that row's id; no update and no
\* PATCH has the id of an earlier row with that key tuple, which stays in
\* the table as it was fetched; and the call does not throw for it.
C22_DuplicateKeysLastWins ==
  SyncStaged =>
    LET matched == SelectSeq(op.records, LAMBDA rec :
                     /\ ~FailsFilter(rec, op.filters)
                     /\ \E r \in 1..Len(fetched) : SameKey(rec, fetched[r], op.keyColIds))
        last == [i \in 1..Len(matched) |-> fetched[LastWithKey(matched[i])]]
        changed == SelectSeq([i \in 1..Len(matched) |-> i], LAMBDA i :
                     UnequalCols(matched[i], last[i]) # {})
        shadowed == {fetched[r].id : r \in {q \in 1..Len(fetched) : Shadowed(q)}}
    IN  /\ updateList = [n \in 1..Len(changed) |->
             UpdateWith(matched[changed[n]], last[changed[n]],
                        UnequalCols(matched[changed[n]], last[changed[n]]))]
        /\ outcome # "rejected"
        /\ \A i \in 1..Len(updateList) : updateList[i].id \notin shadowed
        /\ shadowed # {} =>
             /\ PatchedIds \cap shadowed = {}
             /\ \A r \in 1..Len(fetched) :
                  Shadowed(r) => \E t \in 1..Len(table) : table[t] = fetched[r]

\* C22: two fetched rows have the same value in the key column A; the one
\* update of the run had the id of the later row and has changed it, the
\* earlier row is as it was.
C22_Witness ==
  /\ SyncStaged
  /\ op.keyColIds = <<"A">>
  /\ pc = "done"
  /\ outcome = "ok"
  /\ Len(updateList) = 1
  /\ \E r, s \in 1..Len(fetched) :
       /\ r < s
       /\ fetched[r].A = fetched[s].A
       /\ ~Shadowed(s)
       /\ updateList[1].id = fetched[s].id
       /\ \E t \in 1..Len(table) : table[t].id = fetched[s].id /\ table[t] # fetched[s]
       /\ \E t \in 1..Len(table) : table[t] = fetched[r]

\* Both clients have fetched and staged, and both fetched before either
\* inserted: no row fetched is a row added since the first call began.
BothFetchedFirst ==
  /\ SyncStaged
  /\ peer.pc \in {"send", "wait", "done"}
  /\ peer.outcome # "rejected"
  /\ \A r \in 1..Len(fetched) : fetched[r].id \in RowIds(before)
  /\ \A r \in 1..Len(peer.fetched) : peer.fetched[r].id \in RowIds(before)

\* The requests of the second client's call: answered, in flight, to send.
PeerCalls ==
  peer.log \o (IF peer.pc \in {"fetch", "wait"} THEN <<peer.call>> ELSE <<>>) \o peer.queue

\* A row of one of the insert requests is the record.
InsertedBy(calls, rec) ==
  \E k \in 1..Len(calls) :
    /\ calls[k].method = "POST"
    /\ DOMAIN rec \subseteq DOMAIN calls[k].data
    /\ \E i \in 1..NumRows(calls[k].data) :
         \A c \in DOMAIN rec : calls[k].data[c][i] = rec[c]

\* C23: when both clients have fetched before either has inserted, a record
\* that passes the filter and whose key tuple no row of the table had is
\* staged as an insert by both, each has a POST with it, and once both
\* calls have returned the table has two added rows with the cells of the
\* record and the same key tuple.
C23_BothRunsInsertTheRecord ==
  BothFetchedFirst =>
    \A n \in 1..Len(op.records) :
      LET rec == op.records[n]
      IN  (/\ ~FailsFilter(rec, op.filters)
           /\ \A r \in 1..Len(before) : ~SameKey(rec, before[r], op.keyColIds))
            => /\ \E i \in 1..Len(addList) : addList[i] = rec
               /\ \E i \in 1..Len(peer.addList) : peer.addList[i] = rec
               /\ (outcome \in {"none", "ok"}) => InsertedBy(Calls, rec)
               /\ (peer.outcome \in {"none", "ok"}) => InsertedBy(PeerCalls, rec)
               /\ (pc = "done" /\ outcome = "ok" /\ peer.pc = "done" /\ peer.outcome = "ok") =>
                    \E s, t \in 1..Len(table) :
                      /\ s < t
                      /\ table[s].id \notin RowIds(before)
                      /\ table[t].id \notin RowIds(before)
                      /\ \A c \in DOMAIN rec \ {"id"} :
                           table[s][c] = rec[c] /\ table[t][c] = rec[c]
                      /\ SameKey(table[s], table[t], op.keyColIds)

\* C23: both calls have returned; the table had a row with another key, and
\* has got a row from each client, both with the cells of the one record.
C23_Witness ==
  /\ BothFetchedFirst
  /\ pc = "done" /\ outcome = "ok"
  /\ peer.pc = "done" /\ peer.outcome = "ok"
  /\ op.records = <<[A |-> Num(1), B |-> Num(1)]>>
  /\ op.keyColIds = <<"A", "B">>
  /\ before = <<[id |-> Num(1), A |-> Num(1), B |-> Num(2)]>>
  /\ addList = op.records
  /\ peer.addList = op.records
  /\ table = before \o <<[id |-> Num(2), A |-> Num(1), B |-> Num(1)],
                         [id |-> Num(3), A |-> Num(1), B |-> Num(1)]>>

\* Every input record has every key column, no id column and scalar values
\* only, and no two of them have the same key tuple.
AllWellKeyed(records, keyColIds) ==
  /\ \A i \in 1..Len(records) :
       /\ \A k \in 1..Len(keyColIds) : keyColIds[k] \in DOMAIN records[i]
       /\ "id" \notin DOMAIN records[i]
       /\ \A c \in DOMAIN records[i] : records[i][c].t \notin {"object", "undefined"}
  /\ \A i, j \in 1..Len(records) :
       i # j => ~SameKey(records[i], records[j], keyColIds)

\* C24: when every input record has all the key columns, no id and scalar
\* values, and their key tuples are pairwise distinct, the second of two
\* syncTable calls with the same arguments, the first one's requests sent
\* and answered, stages no update and no insert.
C24_SecondRunStagesNothing ==
  (again = "same" /\ SyncStaged /\ AllWellKeyed(op.records, op.keyColIds))
    => (updateList = <<>> /\ addList = <<>>)

\* C24: the second run of a sync of two such records under a filter has
\* returned; the first run had inserted one of them.
C24_Witness ==
  /\ again = "same"
  /\ SyncStaged
  /\ pc = "done"
  /\ op.filters.given
  /\ Len(op.records) = 2
  /\ AllWellKeyed(op.records, op.keyColIds)
  /\ prior.addList # <<>>
  /\ Len(prior.table) = Len(before)
  /\ updateList = <<>>
  /\ addList = <<>>

\* The values of the record are scalars.
Scalar(rec) == \A c \in DOMAIN rec : rec[c].t \notin {"object", "undefined"}

\* C25: a record with scalar values that is staged as an insert has the key
\* tuple of no row that the table had when the run fetched, in the filtered
\* view or out of it; and a row of the table with the key tuple of a record
\* that passes the filter is one of the rows fetched.
C25_NoInsertForAKeyOfTheTable ==
  SyncStaged =>
    /\ \A i \in 1..Len(addList) :
         Scalar(addList[i]) =>
           \A r \in 1..Len(before) : ~SameKey(addList[i], before[r], op.keyColIds)
    /\ \A n \in 1..Len(op.records) :
         (Scalar(op.records[n]) /\ ~FailsFilter(op.records[n], op.filters)) =>
           \A r \in 1..Len(before) :
             SameKey(op.records[n], before[r], op.keyColIds) =>
               \E f \in 1..Len(fetched) : fetched[f] = before[r]

\* C25: under a filter on A, the one row of the table was out of the view;
\* the record with a new key was inserted, the record with the key of that
\* row was not (it fails the filter).
C25_Witness ==
  /\ SyncStaged
  /\ op.filters = Filters([A |-> {Num(1)}])
  /\ op.keyColIds = <<"A", "B">>
  /\ op.records = <<[A |-> Num(1), B |-> Num(1)], [A |-> Num(2), B |-> Num(1)]>>
  /\ before = <<[id |-> Num(1), A |-> Num(2), B |-> Num(1)]>>
  /\ fetched = <<>>
  /\ addList = <<[A |-> Num(1), B |-> Num(1)]>>
  /\ pc = "done"
  /\ outcome = "ok"
  /\ Len(table) = 2

\* The row is in the view of the filters.
InView(row, filters) ==
  filters.given => \A c \in DOMAIN filters.spec : row[c] \in filters.spec[c]

\* C26: when the records and the fetched rows have scalar values only, no
\* staged update and no PATCH has a key column other than id; every row the
\* table had is still there with the same key tuple, and is in the view of
\* the filters if and only if it was.
C26_UpdatesLeaveKeyColumns ==
  (/\ SyncStaged
   /\ \A n \in 1..Len(op.records) : Scalar(op.records[n])
   /\ \A r \in 1..Len(before) : Scalar(before[r]))
    => /\ \A i \in 1..Len(updateList) :
            DOMAIN updateList[i] \cap Range(op.keyColIds) \subseteq {"id"}
       /\ \A k \in 1..Len(Calls) :
            Calls[k].method = "PATCH" =>
              DOMAIN Calls[k].data \cap Range(op.keyColIds) \subseteq {"id"}
       /\ \A r \in 1..Len(before) :
            \E t \in 1..Len(table) :
              /\ table[t].id = before[r].id
              /\ \A k \in 1..Len(op.keyColIds) :
                   table[t][op.keyColIds[k]] = before[r][op.keyColIds[k]]
              /\ InView(table[t], op.filters) <=> InView(before[r], op.filters)

\* C26: under a filter on the key column A, the row with A = 1 has got
\* another B and has kept its A.
C26_Witness ==
  /\ SyncStaged
  /\ op.filters = Filters([A |-> {Num(1)}])
  /\ op.keyColIds = <<"A">>
  /\ op.records = <<[A |-> Num(1), B |-> Num(2)]>>
  /\ before = <<[id |-> Num(1), A |-> Num(1), B |-> Num(1)]>>
  /\ updateList = <<[id |-> Num(1), B |-> Num(2)]>>
  /\ pc = "done"
  /\ outcome = "ok"
  /\ table = <<[id |-> Num(1), A |-> Num(1), B |-> Num(2)]>>

\* The table after the update of one record: the row with the record's id
\* gets the record's values in the record's columns.
UpdatedBy(rows, rec) ==
  [r \in 1..Len(rows) |->
     IF rows[r].id = rec.id
     THEN [c \in RowCols |-> IF c # "id" /\ c \in DOMAIN rec THEN rec[c] ELSE rows[r][c]]
     ELSE rows[r]]

\* The table after the updates of the records, one record at a time.
RECURSIVE OneAtATime(_, _)
OneAtATime(rows, records) ==
  IF records = <<>> THEN rows
  ELSE OneAtATime(UpdatedBy(rows, Head(records)), Tail(records))

\* The records column set by column set: the column sets in the order of
\* their first records, the records of one column set in input order.
ByColumnSet(records) ==
  LET Earlier(j, i) ==
        \/ FirstWith(records, DOMAIN records[j]) < FirstWith(records, DOMAIN records[i])
        \/ /\ FirstWith(records, DOMAIN records[j]) = FirstWith(records, DOMAIN records[i])
           /\ j < i
      Place(i) == Cardinality({j \in 1..Len(records) : Earlier(j, i)}) + 1
  IN  [n \in 1..Len(records) |-> records[CHOOSE i \in 1..Len(records) : Place(i) = n]]

\* updateRecords has returned, every request answered.
Updated == op.name = "updateRecords" /\ pc = "done" /\ outcome = "ok"

\* C27 as claimed: the table after updateRecords(records) is the table after
\* the updates of the records one at a time in input order, whatever the
\* column sets of the records.
C27_UpdatesInInputOrder == Updated => table = OneAtATime(before, op.records)

\* C27 as amended: the table after updateRecords(records) is the table after
\* the updates of the records one at a time, column set by column set; that
\* is input order when the records of every column set follow each other.
C27_UpdatesByColumnSet ==
  Updated =>
    /\ table = OneAtATime(before, ByColumnSet(op.records))
    /\ (\A i, j \in 1..Len(op.records) :
          (i < j /\ DOMAIN op.records[i] = DOMAIN op.records[j]) =>
            \A n \in i..j : DOMAIN op.records[n] = DOMAIN op.records[i])
         => table = OneAtATime(before, op.records)

\* C27: of three records with the id of the one row, the second with other
\* columns than the first and the third, the second was applied last: the
\* row has its B, not the B of the third.
C27_Witness ==
  /\ Updated
  /\ op.records = <<[id |-> Num(1), B |-> Num(2)], [id |-> Num(1), A |-> Num(2), B |-> Num(1)],
                    [id |-> Num(1), B |-> Num(2)]>>
  /\ before = <<[id |-> Num(1), A |-> Num(1), B |-> Num(1)]>>
  /\ table = <<[id |-> Num(1), A |-> Num(2), B |-> Num(1)]>>

\* The record and the row agree, in value and in type, on every key column:
\* both have the column and have the same value in it.
AgreeOnKey(rec, row, keyColIds) ==
  \A k \in 1..Len(keyColIds) :
    /\ keyColIds[k] \in DOMAIN rec
    /\ keyColIds[k] \in DOMAIN row
    /\ rec[keyColIds[k]] = row[keyColIds[k]]

\* C28 as claimed: a record matches a fetched row only if the two agree, in
\* value and in type, on every key column, a record that lacks a key column
\* agreeing with no row (not with one that has null there): a record that
\* passes the filter and agrees with no fetched row is staged as an insert.
C28_KeysDistinguishTypesAndAbsence ==
  SyncStaged =>
    \A n \in 1..Len(op.records) :
      (/\ ~FailsFilter(op.records[n], op.filters)
       /\ \A r \in 1..Len(fetched) : ~AgreeOnKey(op.records[n], fetched[r], op.keyColIds))
        => \E i \in 1..Len(addList) : addList[i] = op.records[n]

\* What one record stages, from the record and the fetched rows alone: an
\* insert, an update, or nothing.
StagedOf(rec) ==
  IF FailsFilter(rec, op.filters) THEN [updates |-> <<>>, inserts |-> <<>>]
  ELSE IF \A r \in 1..Len(fetched) : ~SameKey(rec, fetched[r], op.keyColIds)
  THEN [updates |-> <<>>, inserts |-> <<rec>>]
  ELSE LET row == fetched[LastWithKey(rec)]
           cols == UnequalCols(rec, row)
       IN  IF cols = {} THEN [updates |-> <<>>, inserts |-> <<>>]
           ELSE [updates |-> <<UpdateWith(rec, row, cols)>>, inserts |-> <<>>]

\* C29: the staged updates and inserts are those of the records one by
\* one, in input order, each from the record and the fetched rows alone; so
\* two records with one key tuple that no fetched row has are both staged
\* as inserts, in input order, and two with the key tuple of a fetched row
\* both get the update that each would get alone, with the id of that row.
C29_InputDuplicatesNotMerged ==
  SyncStaged =>
    LET staged == [n \in 1..Len(op.records) |-> StagedOf(op.records[n])]
        same == {p \in (1..Len(op.records)) \X (1..Len(op.records)) :
                   /\ p[1] < p[2]
                   /\ SameKey(op.records[p[1]], op.records[p[2]], op.keyColIds)}
    IN  /\ updateList = Flatten([n \in 1..Len(op.records) |-> staged[n].updates])
        /\ addList = Flatten([n \in 1..Len(op.records) |-> staged[n].inserts])
        /\ \A p \in same :
             (staged[p[1]].inserts # <<>> /\ staged[p[2]].inserts # <<>>)
               => \E a, b \in 1..Len(addList) :
                    a < b /\ addList[a] = op.records[p[1]] /\ addList[b] = op.records[p[2]]
        /\ \A p \in same :
             (staged[p[1]].updates # <<>> /\ staged[p[2]].updates # <<>>)
               => \E a, b \in 1..Len(updateList) :
                    /\ a < b
                    /\ updateList[a] = staged[p[1]].updates[1]
                    /\ updateList[b] = staged[p[2]].updates[1]
                    /\ updateList[a].id = updateList[b].id

\* C29: two records with the key of the one row; the first has staged an
\* update of B, and the second, which has the B that the row had when it
\* was fetched, has staged nothing.
C29_Witness ==
  /\ SyncStaged
  /\ op.keyColIds = <<"A">>
  /\ op.records = <<[A |-> Num(1), B |-> Num(2)], [A |-> Num(1), B |-> Num(1)]>>
  /\ fetched = <<[id |-> Num(1), A |-> Num(1), B |-> Num(1)]>>
  /\ updateList = <<[id |-> Num(1), B |-> Num(2)]>>
  /\ addList = <<>>
  /\ pc = "done"
  /\ outcome = "ok"
  /\ table = <<[id |-> Num(1), A |-> Num(1), B |-> Num(2)]>>

\* C30: the id of every staged update, and every id in a PATCH, is the id
\* of a fetched row; the update of a record has the id of the row that the
\* record matches by key tuple, and the id that a matched record carries is
\* in no update and in no PATCH unless it is the id of a fetched row.
C30_UpdatesHaveTheIdOfTheMatchedRow ==
  SyncStaged =>
    LET fetchedIds == RowIds(fetched)
        patched == PatchedIds
    IN  /\ \A i \in 1..Len(updateList) : updateList[i].id \in fetchedIds
        /\ patched \subseteq fetchedIds
        /\ \A n \in 1..Len(op.records) :
             LET rec == op.records[n]
             IN  StagedOf(rec).updates # <<>> =>
                   /\ \E i \in 1..Len(updateList) :
                        /\ updateList[i].id = fetched[LastWithKey(rec)].id
                        /\ \A c \in DOMAIN updateList[i] \ {"id"} : updateList[i][c] = rec[c]
                   /\ ("id" \in DOMAIN rec /\ rec.id \notin fetchedIds) =>
                        /\ \A i \in 1..Len(updateList) : updateList[i].id # rec.id
                        /\ rec.id \notin patched

\* C30: the record carries the id 9 and has the key of the row 1; the
\* update and the PATCH had the id 1, and the row 1 has got the record's B.
C30_Witness ==
  /\ SyncStaged
  /\ op.keyColIds = <<"A">>
  /\ op.records = <<[id |-> Num(9), A |-> Num(1), B |-> Num(1)]>>
  /\ fetched = <<[id |-> Num(1), A |-> Num(1), B |-> Num(2)]>>
  /\ updateList = <<[id |-> Num(1), B |-> Num(1)]>>
  /\ pc = "done"
  /\ outcome = "ok"
  /\ Len(log) = 2
  /\ log[2].data.id = <<Num(1)>>
  /\ table = <<[id |-> Num(1), A |-> Num(1), B |-> Num(1)]>>

====
